---- MODULE Spec2Model ----
(***************************************************************************)
(* State-machine model of price_feeds_poller.py: the poll loop of          *)
(* log_loop, the submission helper handle_requestUpdate and the per-feed   *)
(* record pf.  One pass of the "for pf in pfs" body is modelled as three   *)
(* steps separated by the blocking chain calls: the router check (lines    *)
(* 321-367), the status poll and trigger decision (lines 369-447 and       *)
(* 495-498) and the update submission (lines 449-493).                     *)
(*                                                                         *)
(* Times are seconds on a scaled-down clock, addresses are small integers  *)
(* (0 is the null address), prices are integers and percentages are kept   *)
(* in hundredths of a percent, which is the resolution of round(x, 2).     *)
(***************************************************************************)
EXTENDS Integers, Sequences, FiniteSets, TLC

VARIABLES
  pfs,           \* the list of feed records (pfs in log_loop)
  pc,            \* position of the loop: "loop", "route", "poll", "submit", "sleep", "crashed"
  cur,           \* index in pfs of the feed being processed
  now,           \* int(time.time())
  loop_ts,       \* loop_ts of the running tick
  elapsed_secs,  \* the local elapsed_secs of the running feed pass
  reason,        \* the local reason of the running feed pass ("" when unset)
  ev,            \* what the last step read from the chain, the router, the oracle
  gh             \* per feed: history variables used to state the properties

vars == <<pfs, pc, cur, now, loop_ts, elapsed_secs, reason, ev, gh>>

(***************************************************************************)
(* Bounds of the model and configuration values.                           *)
(***************************************************************************)
\* Horizon of the clock.
MaxTime == 4
\* Largest request id the chain hands out.
MaxRid == 1
\* Length kept by pf["fees"]: stands for the 16 of line 483, scaled down.
FeesCap == 1
\* Length kept by pf["secs"]: stands for the 256 of line 486, scaled down.
SecsCap == 1

\* WPFP_WEB3_MAX_REVERTS
web3_max_reverts == 2
\* --loop_interval_secs
loop_interval_secs == 1
\* web3_finalization_secs + witnet_resolution_secs
total_finalization_secs == 1
\* "0x0000000000000000000000000000000000000000"
ZeroAddr == 0
\* Seconds slept after a failed attempt of the route-change refresh.
RetrySleepSecs == 1
\* range(5): attempts of the route-change refresh.
MaxAttempts == 5

Addrs == {ZeroAddr, 1, 2}
StartAddrs == {1}
Prices == {0, 100}
OraclePrices == {95, 100, 104}
RequestIds == 0..MaxRid
\* balance before minus balance after the transaction
FeeDeltas == {0, 1, 2}
TxHashes == {"0xaa"}
\* lastValue()[3]: 200 is a valid result, 400 an error, 404 a pending one
Statuses == {200, 400, 404}
Outcomes == {"failed", "timeout", "reverted", "event", "noevent"}
Balances == {0, 1}
\* The timestamps a contract reports: that of the start, or one just set.
Timestamps == {0, now}

\* The entries of the configuration file that the model draws from:
\* minSecsBetweenUpdates, deviationPercentage (in hundredths of a percent),
\* maxSecsBetweenUpdates, isRouted.
Policy(c, d, h, r) == [cooldown |-> c, deviation |-> d, heartbeat |-> h, isRouted |-> r]
Configs ==
  {Policy(2, 400, 3, FALSE), Policy(0, 0, 3, FALSE),
   Policy(0, 0, 3, TRUE), Policy(0, 400, 0, FALSE)}

Min(a, b) == IF a < b THEN a ELSE b
Abs(x) == IF x < 0 THEN 0 - x ELSE x

(***************************************************************************)
(* The feed record.                                                        *)
(***************************************************************************)
\* pfs.append({...}) at start-up; latestQueryId = -1 stands for a key that
\* the record does not have yet.  The keys "id", "caption" and "witnet" are
\* left out: they are only printed.
NewFeed(addr, cfg, lp, lt, qid, pu) ==
  [contract |-> addr,
   deviation |-> cfg.deviation,
   heartbeat |-> cfg.heartbeat,
   isRouted |-> cfg.isRouted,
   lastPrice |-> lp,
   lastTimestamp |-> lt,
   latestRequestId |-> qid,
   latestQueryId |-> -1,
   cooldown |-> cfg.cooldown,
   pendingUpdate |-> IF cfg.isRouted THEN FALSE ELSE pu,
   reverts |-> 0,
   auto_disabled |-> FALSE,
   lastRevertedTx |-> "",
   fees |-> <<>>,
   secs |-> <<>>]

\* Faulty variant: the refresh forgets to re-enable the feed.
ResetFeed_StaysDisabled(pf, addr, cfg, lp, lt, qid, pu) ==
  [pf EXCEPT
     !.contract = addr,
     !.cooldown = cfg.cooldown,
     !.deviation = cfg.deviation,
     !.heartbeat = cfg.heartbeat,
     !.isRouted = cfg.isRouted,
     !.lastPrice = lp,
     !.lastTimestamp = lt,
     !.latestQueryId = qid,
     !.pendingUpdate = pu,
     !.fees = <<>>,
     !.secs = <<>>,
     !.lastRevertedTx = "",
     !.reverts = 0]

\* The refresh of a feed whose route changed, every read succeeding.
ResetFeed(pf, addr, cfg, lp, lt, qid, pu) ==
  [pf EXCEPT
     !.contract = addr,
     !.cooldown = cfg.cooldown,
     !.deviation = cfg.deviation,
     !.heartbeat = cfg.heartbeat,
     !.isRouted = cfg.isRouted,
     !.lastPrice = lp,
     !.lastTimestamp = lt,
     !.latestQueryId = qid,
     !.pendingUpdate = pu,
     !.fees = <<>>,
     !.secs = <<>>,
     !.auto_disabled = FALSE,
     !.lastRevertedTx = "",
     !.reverts = 0]

\* The refresh when every attempt fails: k is the read that failed in the
\* attempt that went furthest (1 witnet, 2 lastPrice, 3 lastTimestamp,
\* 4 latestQueryId, 5 pendingUpdate).  The assignments before it were made,
\* the flags were not reset.
ResetFailed(pf, addr, cfg, k, lp, lt, qid) ==
  [pf EXCEPT
     !.contract = addr,
     !.cooldown = cfg.cooldown,
     !.deviation = cfg.deviation,
     !.heartbeat = cfg.heartbeat,
     !.isRouted = cfg.isRouted,
     !.lastPrice = IF k > 2 THEN lp ELSE @,
     !.lastTimestamp = IF k > 3 THEN lt ELSE @,
     !.latestQueryId = IF k > 4 THEN qid ELSE @]

\* A route change to the null address: only pf["contract"] is replaced.
RouteToNull(pf, addr) == [pf EXCEPT !.contract = addr]

\* Faulty variant: a success is taken for new whatever its timestamp.
IsNewResult_AnyTimestamp(pf, status, ts) == status = 200

\* status == 200 and lastValue[1] > pf["lastTimestamp"]
IsNewResult(pf, status, ts) == status = 200 /\ ts > pf.lastTimestamp

\* Faulty variant: the new timestamp is not stored.
Resolve_KeepsTimestamp(pf, price, ts) ==
  [pf EXCEPT !.pendingUpdate = FALSE, !.lastPrice = price]

\* A new valid result has just been detected.
Resolve(pf, price, ts) ==
  [pf EXCEPT !.pendingUpdate = FALSE, !.lastPrice = price, !.lastTimestamp = ts]

\* Faulty variant: the error result does not end the wait.
ResolveError_StillPending(pf) == pf

\* Faulty variant: the explicit error also forgets the request.
ResolveError_ForgetsRequest(pf) ==
  [pf EXCEPT !.pendingUpdate = FALSE, !.latestRequestId = 0]

\* An invalid result has just been detected.
ResolveError(pf) == [pf EXCEPT !.pendingUpdate = FALSE]

\* Faulty variant: the cooldown gate is not applied.
CooldownPassed_Always(pf, elapsed) == TRUE

\* elapsed_secs >= pf["cooldown"] - total_finalization_secs
CooldownPassed(pf, elapsed) == elapsed >= pf.cooldown - total_finalization_secs

\* Faulty variant: the finalization budget is discounted for routed feeds too.
HeartbeatDue_AlwaysDiscounted(pf, elapsed) ==
  elapsed >= pf.heartbeat - total_finalization_secs

\* elapsed_secs >= pf["heartbeat"] - (0 if pf["isRouted"] else total_finalization_secs)
HeartbeatDue(pf, elapsed) ==
  elapsed >= pf.heartbeat - (IF pf.isRouted THEN 0 ELSE total_finalization_secs)

\* Faulty variant: the deviation check is made for routed feeds too.
DeviationChecked_RoutedToo(pf) == pf.deviation > 0 /\ pf.lastPrice > 0

\* pf['isRouted'] == False and pf['deviation'] > 0 and last_price > 0
DeviationChecked(pf) == ~pf.isRouted /\ pf.deviation > 0 /\ pf.lastPrice > 0

\* n / d rounded to the nearest integer, ties to the even one (d > 0)
RoundDiv(n, d) ==
  LET q == n \div d
      r == n - q * d
  IN  IF 2 * r < d THEN q
      ELSE IF 2 * r > d THEN q + 1
      ELSE IF q % 2 = 0 THEN q ELSE q + 1

\* round(100 * ((next_price - last_price) / last_price), 2), in hundredths
DeviationOf(next_price, last_price) ==
  RoundDiv(10000 * (next_price - last_price), last_price)

\* Faulty variant: the deviation is compared without abs().
BelowThreshold_Signed(pf, next_price) ==
  DeviationOf(next_price, pf.lastPrice) < pf.deviation

\* abs(deviation) < pf["deviation"]
BelowThreshold(pf, next_price) ==
  Abs(DeviationOf(next_price, pf.lastPrice)) < pf.deviation

(***************************************************************************)
(* handle_requestUpdate and the use of its result.                         *)
(***************************************************************************)
\* Faulty variant: a receipt without event returns 0 instead of latestRequestId.
handle_requestUpdate_ZeroWithoutEvent(outcome, rid, tx, total_fee, latestRequestId) ==
  CASE outcome = "timeout" -> <<0>>
    [] outcome = "failed" -> <<0>>
    [] outcome = "reverted" -> <<-1, tx>>
    [] outcome = "event" -> <<rid, tx, total_fee>>
    [] outcome = "noevent" -> <<0, tx, total_fee>>

\* The list handle_requestUpdate returns.
handle_requestUpdate(outcome, rid, tx, total_fee, latestRequestId) ==
  CASE outcome = "timeout" -> <<0>>
    [] outcome = "failed" -> <<0>>
    [] outcome = "reverted" -> <<-1, tx>>
    [] outcome = "event" -> <<rid, tx, total_fee>>
    [] outcome = "noevent" -> <<latestRequestId, tx, total_fee>>

\* Faulty variant: the threshold is compared with > instead of >=.
ApplyResult_StrictThreshold(pf, result) ==
  LET latestRequestId == result[1] IN
  IF latestRequestId > 0
    THEN [pf EXCEPT !.latestRequestId = latestRequestId,
                    !.pendingUpdate = TRUE,
                    !.reverts = 0]
    ELSE IF latestRequestId < 0
      THEN [pf EXCEPT !.lastRevertedTx = result[2],
                      !.reverts = @ + 1,
                      !.auto_disabled =
                        IF pf.reverts + 1 > web3_max_reverts THEN TRUE ELSE @]
      ELSE pf

\* Faulty variant: every revert disables the feed, the threshold is not looked at.
ApplyResult_DisablesAtOnce(pf, result) ==
  LET latestRequestId == result[1] IN
  IF latestRequestId > 0
    THEN [pf EXCEPT !.latestRequestId = latestRequestId,
                    !.pendingUpdate = TRUE,
                    !.reverts = 0]
    ELSE IF latestRequestId < 0
      THEN [pf EXCEPT !.lastRevertedTx = result[2],
                      !.reverts = @ + 1,
                      !.auto_disabled = TRUE]
      ELSE pf

\* latestRequestId = result[0] and the two branches on its sign
ApplyResult(pf, result) ==
  LET latestRequestId == result[1] IN
  IF latestRequestId > 0
    THEN [pf EXCEPT !.latestRequestId = latestRequestId,
                    !.pendingUpdate = TRUE,
                    !.reverts = 0]
    ELSE IF latestRequestId < 0
      THEN [pf EXCEPT !.lastRevertedTx = result[2],
                      !.reverts = @ + 1,
                      !.auto_disabled =
                        IF pf.reverts + 1 >= web3_max_reverts THEN TRUE ELSE @]
      ELSE pf

\* Faulty variant: the newest sample is deleted instead of the oldest.
AppendTrim_DropsNewest(seq, x, cap) ==
  LET s == Append(seq, x) IN IF Len(s) > cap THEN SubSeq(s, 1, cap) ELSE s

\* append, then del [0] when the list is longer than cap
AppendTrim(seq, x, cap) ==
  LET s == Append(seq, x) IN IF Len(s) > cap THEN Tail(s) ELSE s

\* Faulty variant: the latency sample is appended whatever the result is.
UpdateHistory_AnyResult(pf, result, elapsed) ==
  IF Len(result) >= 3
    THEN [pf EXCEPT
            !.fees = IF result[3] > 0 THEN AppendTrim(@, result[3], FeesCap) ELSE @,
            !.secs = AppendTrim(@, elapsed, SecsCap)]
    ELSE [pf EXCEPT !.secs = AppendTrim(@, elapsed, SecsCap)]

\* update fees and secs history
UpdateHistory(pf, result, elapsed) ==
  IF Len(result) >= 3
    THEN [pf EXCEPT
            !.fees = IF result[3] > 0 THEN AppendTrim(@, result[3], FeesCap) ELSE @,
            !.secs = AppendTrim(@, elapsed, SecsCap)]
    ELSE pf

\* in case of routed priced, update lastTimestamp immediately
RoutedRefresh(pf, ts) == [pf EXCEPT !.lastTimestamp = ts]

(***************************************************************************)
(* History variables.                                                      *)
(***************************************************************************)
NoGhost ==
  [lastSentAt |-> -1,       \* time of the last transaction sent, -1 if none
   routeChanged |-> FALSE,  \* the running pass resolved another address
   revertedSince |-> 0,     \* Reverted outcomes since the last event with an
                            \* id > 0 or the last refresh
   revertedSinceId |-> 0]   \* Reverted outcomes since the last returned
                            \* id > 0 or the last refresh

\* The counters stop one above the threshold.
Saturate(n) == Min(n, web3_max_reverts + 1)

(***************************************************************************)
(* Initial state: the feeds appended at start-up.                          *)
(***************************************************************************)
Init ==
  /\ \E addr \in StartAddrs, cfg \in Configs, lp \in Prices,
        qid \in RequestIds, pu \in BOOLEAN :
       pfs = <<NewFeed(addr, cfg, lp, 0, qid, pu)>>
  /\ pc = "loop"
  /\ cur = 1
  /\ now = 0
  /\ loop_ts = 0
  /\ elapsed_secs = 0
  /\ reason = ""
  /\ ev = [step |-> "start", feed |-> 0]
  /\ gh = <<NoGhost>>

\* The end of one pass of the body of "for pf in pfs": next feed or sleep.
EndPass(g) ==
  /\ IF cur < Len(pfs)
       THEN pc' = "route" /\ cur' = cur + 1
       ELSE pc' = "sleep" /\ cur' = 1
  /\ elapsed_secs' = 0
  /\ reason' = ""
  /\ gh' = [g EXCEPT ![cur].routeChanged = FALSE]

(***************************************************************************)
(* The loop: tick start and sleep.                                         *)
(***************************************************************************)
LoopStart ==
  /\ pc = "loop"
  /\ loop_ts' = now
  /\ pc' = "route"
  /\ cur' = 1
  /\ ev' = [step |-> "loop", feed |-> 0]
  /\ UNCHANGED <<pfs, now, elapsed_secs, reason, gh>>

\* w3.eth.getBalance(web3_from) at the top of the tick raises: no handler.
LoopCrash ==
  /\ pc = "loop"
  /\ pc' = "crashed"
  /\ ev' = [step |-> "crash", feed |-> 0]
  /\ UNCHANGED <<pfs, cur, now, loop_ts, elapsed_secs, reason, gh>>

Sleep ==
  /\ pc = "sleep"
  /\ LET preemptive_secs == loop_interval_secs - now + loop_ts IN
       now' = IF preemptive_secs > 0 THEN now + preemptive_secs ELSE now
  /\ now' <= MaxTime
  /\ pc' = "loop"
  /\ ev' = [step |-> "sleep", feed |-> 0]
  /\ UNCHANGED <<pfs, cur, loop_ts, elapsed_secs, reason, gh>>

\* A blocking call takes a second.
TimePasses ==
  /\ pc = "submit"
  /\ now < MaxTime
  /\ now' = now + 1
  /\ ev' = [step |-> "time", feed |-> 0]
  /\ UNCHANGED <<pfs, pc, cur, loop_ts, elapsed_secs, reason, gh>>

(***************************************************************************)
(* Router check.                                                           *)
(***************************************************************************)
\* addr: the address the router returned (-1 when the call raised); was: the
\* address tracked before; reset: how the refresh ended; wasDisabled: the
\* feed's auto_disabled before the step.
RouteEv(addr, reset) ==
  [step |-> "route", feed |-> cur, addr |-> addr, was |-> pfs[cur].contract,
   reset |-> reset, wasDisabled |-> pfs[cur].auto_disabled]

\* Faulty variant: a disabled feed is not skipped.
Skipped_IgnoresDisabled(pf, contractAddr) == contractAddr = ZeroAddr

\* Faulty variant: a feed the router stopped supporting is not skipped.
Skipped_IgnoresNull(pf, contractAddr) == pf.auto_disabled

\* The two "continue" after the route check: the router stopped supporting
\* the feed, or the feed is disabled.
Skipped(pf, contractAddr) == contractAddr = ZeroAddr \/ pf.auto_disabled

\* getPriceFeed (or the reload of the configuration) raises.
RouteReadFails ==
  /\ pc = "route"
  /\ ev' = RouteEv(-1, "none")
  /\ EndPass(gh)
  /\ UNCHANGED <<pfs, now, loop_ts>>

\* Faulty variant: the refresh's reset of the histories is made although
\* the address did not change.
RouteSame_ClearsHistories ==
  /\ pc = "route"
  /\ LET pf == pfs[cur] IN
     /\ ev' = RouteEv(pf.contract, "none")
     /\ IF Skipped(pf, pf.contract)
          THEN EndPass(gh)
          ELSE /\ pc' = "poll"
               /\ UNCHANGED <<cur, elapsed_secs, reason, gh>>
  /\ pfs' = [pfs EXCEPT ![cur].fees = <<>>, ![cur].secs = <<>>]
  /\ UNCHANGED <<now, loop_ts>>

\* The router returns the tracked address.
RouteSame ==
  /\ pc = "route"
  /\ LET pf == pfs[cur] IN
     /\ ev' = RouteEv(pf.contract, "none")
     /\ IF Skipped(pf, pf.contract)
          THEN EndPass(gh)
          ELSE /\ pc' = "poll"
               /\ UNCHANGED <<cur, elapsed_secs, reason, gh>>
  /\ UNCHANGED <<pfs, now, loop_ts>>

\* The router returns the null address for a feed tracked elsewhere.
RouteToZero ==
  /\ pc = "route"
  /\ pfs[cur].contract # ZeroAddr
  /\ pfs' = [pfs EXCEPT ![cur] = RouteToNull(@, ZeroAddr)]
  /\ ev' = RouteEv(ZeroAddr, "none")
  /\ EndPass([gh EXCEPT ![cur].routeChanged = TRUE])
  /\ UNCHANGED <<now, loop_ts>>

\* The router returns another address and the refresh succeeds, after
\* `failed` attempts that raised.
RouteReset ==
  /\ pc = "route"
  /\ \E addr \in Addrs \ {ZeroAddr}, cfg \in Configs, failed \in 0..(MaxAttempts - 1) :
       /\ addr # pfs[cur].contract
       /\ now + failed * RetrySleepSecs <= MaxTime
       /\ now' = now + failed * RetrySleepSecs
       /\ \E lp \in Prices, lt \in Timestamps, qid \in RequestIds, pu \in BOOLEAN :
            pfs' = [pfs EXCEPT ![cur] = ResetFeed(@, addr, cfg, lp, lt, qid, pu)]
       /\ ev' = RouteEv(addr, "ok")
       /\ LET g == [gh EXCEPT ![cur].routeChanged = TRUE,
                              ![cur].revertedSince = 0,
                              ![cur].revertedSinceId = 0]
          IN  IF Skipped(pfs'[cur], addr)
                THEN EndPass(g)
                ELSE /\ pc' = "poll"
                     /\ gh' = g
                     /\ UNCHANGED <<cur, elapsed_secs, reason>>
  /\ UNCHANGED <<loop_ts>>

\* The router returns another address and all the attempts raise.
RouteResetFails ==
  /\ pc = "route"
  /\ \E addr \in Addrs \ {ZeroAddr}, cfg \in Configs, k \in 1..5 :
       /\ addr # pfs[cur].contract
       /\ cfg.isRouted => k > 1
       /\ now + (MaxAttempts - 1) * RetrySleepSecs <= MaxTime
       /\ now' = now + (MaxAttempts - 1) * RetrySleepSecs
       /\ \E lp \in Prices, lt \in Timestamps, qid \in RequestIds :
            pfs' = [pfs EXCEPT ![cur] = ResetFailed(@, addr, cfg, k, lp, lt, qid)]
       /\ ev' = RouteEv(addr, "failed")
  /\ EndPass([gh EXCEPT ![cur].routeChanged = TRUE])
  /\ UNCHANGED <<loop_ts>>

RouteCheck ==
  \/ RouteReadFails
  \/ RouteSame
  \/ RouteToZero
  \/ RouteReset
  \/ RouteResetFails

(***************************************************************************)
(* Status poll and trigger decision.                                       *)
(***************************************************************************)
\* branch: the branch taken; status, ts, price: lastValue() as read by a feed
\* awaiting an update; flag: pendingUpdate() as read; oracle: the dry run.
PollEv(branch, status, ts, price, flag, oracle) ==
  [step |-> "poll", feed |-> cur, branch |-> branch, status |-> status, ts |-> ts,
   price |-> price, flag |-> flag, oracle |-> oracle]

\* contract.functions.lastValue().call() raises.
PollReadFails ==
  /\ pc = "poll"
  /\ ev' = PollEv("readfailed", 0, 0, 0, "none", -1)
  /\ EndPass(gh)
  /\ UNCHANGED <<pfs, now, loop_ts>>

\* If still waiting for an update.
PollAwaiting ==
  /\ pc = "poll"
  /\ pfs[cur].pendingUpdate
  /\ \E price \in Prices, ts \in Timestamps, status \in Statuses :
       LET pf == pfs[cur] IN
       /\ ev' = PollEv("awaiting", status, ts, price, "none", -1)
       /\ IF IsNewResult(pf, status, ts)
            THEN /\ pfs' = [pfs EXCEPT ![cur] = Resolve(@, price, ts)]
                 /\ EndPass(gh)
            ELSE IF status = 400
              THEN /\ pfs' = [pfs EXCEPT ![cur] = ResolveError(@)]
                   /\ EndPass(gh)
              ELSE /\ pfs' = pfs
                   /\ EndPass(gh)
  /\ UNCHANGED <<now, loop_ts>>

\* No update pending and the cooldown gate not passed yet.
PollResting ==
  /\ pc = "poll"
  /\ ~pfs[cur].pendingUpdate
  /\ ~CooldownPassed(pfs[cur], now - pfs[cur].lastTimestamp)
  /\ ev' = PollEv("resting", 0, 0, 0, "none", -1)
  /\ EndPass(gh)
  /\ UNCHANGED <<pfs, now, loop_ts>>

\* No heartbeat, no polling: copy the contract's pendingUpdate flag.
PollNoHeartbeat ==
  /\ pc = "poll"
  /\ ~pfs[cur].pendingUpdate
  /\ CooldownPassed(pfs[cur], now - pfs[cur].lastTimestamp)
  /\ pfs[cur].heartbeat = 0
  /\ \E flag \in {"true", "false", "raised"} :
       /\ ev' = PollEv("noheartbeat", 0, 0, 0, flag, -1)
       /\ pfs' = IF flag = "raised" THEN pfs
                 ELSE [pfs EXCEPT ![cur].pendingUpdate = (flag = "true")]
  /\ EndPass(gh)
  /\ UNCHANGED <<now, loop_ts>>

\* Faulty variant: the heartbeat condition is tested before heartbeat == 0.
PollHeartbeat_BeforeZeroTest ==
  /\ pc = "poll"
  /\ ~pfs[cur].pendingUpdate
  /\ CooldownPassed(pfs[cur], now - pfs[cur].lastTimestamp)
  /\ HeartbeatDue(pfs[cur], now - pfs[cur].lastTimestamp)
  /\ ev' = PollEv("heartbeat", 0, 0, 0, "none", -1)
  /\ elapsed_secs' = now - pfs[cur].lastTimestamp
  /\ reason' = "heartbeat"
  /\ pc' = "submit"
  /\ UNCHANGED <<pfs, cur, now, loop_ts, gh>>

\* The heartbeat condition holds.
PollHeartbeat ==
  /\ pc = "poll"
  /\ ~pfs[cur].pendingUpdate
  /\ CooldownPassed(pfs[cur], now - pfs[cur].lastTimestamp)
  /\ pfs[cur].heartbeat # 0
  /\ HeartbeatDue(pfs[cur], now - pfs[cur].lastTimestamp)
  /\ ev' = PollEv("heartbeat", 0, 0, 0, "none", -1)
  /\ elapsed_secs' = now - pfs[cur].lastTimestamp
  /\ reason' = "heartbeat"
  /\ pc' = "submit"
  /\ UNCHANGED <<pfs, cur, now, loop_ts, gh>>

\* Faulty variant: a dry run that raised is taken for a deviation.
PollDeviation_FailureTriggers ==
  /\ pc = "poll"
  /\ ~pfs[cur].pendingUpdate
  /\ CooldownPassed(pfs[cur], now - pfs[cur].lastTimestamp)
  /\ pfs[cur].heartbeat # 0
  /\ ~HeartbeatDue(pfs[cur], now - pfs[cur].lastTimestamp)
  /\ DeviationChecked(pfs[cur])
  /\ \E oracle \in OraclePrices \cup {-1} :
       /\ ev' = PollEv("deviation", 0, 0, 0, "none", oracle)
       /\ IF oracle # -1 /\ BelowThreshold(pfs[cur], oracle)
            THEN EndPass(gh)
            ELSE /\ elapsed_secs' = now - pfs[cur].lastTimestamp
                 /\ reason' = "deviation"
                 /\ pc' = "submit"
                 /\ UNCHANGED <<cur, gh>>
  /\ UNCHANGED <<pfs, now, loop_ts>>

\* The heartbeat condition does not hold: dry-run the request.
\* oracle = -1 stands for a dry run (or the bytecode read) that raised.
PollDeviation ==
  /\ pc = "poll"
  /\ ~pfs[cur].pendingUpdate
  /\ CooldownPassed(pfs[cur], now - pfs[cur].lastTimestamp)
  /\ pfs[cur].heartbeat # 0
  /\ ~HeartbeatDue(pfs[cur], now - pfs[cur].lastTimestamp)
  /\ DeviationChecked(pfs[cur])
  /\ \E oracle \in OraclePrices \cup {-1} :
       /\ ev' = PollEv("deviation", 0, 0, 0, "none", oracle)
       /\ IF oracle = -1 \/ BelowThreshold(pfs[cur], oracle)
            THEN EndPass(gh)
            ELSE /\ elapsed_secs' = now - pfs[cur].lastTimestamp
                 /\ reason' = "deviation"
                 /\ pc' = "submit"
                 /\ UNCHANGED <<cur, gh>>
  /\ UNCHANGED <<pfs, now, loop_ts>>

\* Neither heartbeat nor deviation: a routed feed asks the contract whether
\* an update was signalled.
PollRouted ==
  /\ pc = "poll"
  /\ ~pfs[cur].pendingUpdate
  /\ CooldownPassed(pfs[cur], now - pfs[cur].lastTimestamp)
  /\ pfs[cur].heartbeat # 0
  /\ ~HeartbeatDue(pfs[cur], now - pfs[cur].lastTimestamp)
  /\ ~DeviationChecked(pfs[cur])
  /\ \E flag \in {"true", "false", "raised", "none"} :
       /\ pfs[cur].isRouted <=> flag # "none"
       /\ ev' = PollEv("routed", 0, 0, 0, flag, -1)
       /\ IF flag = "true"
            THEN /\ elapsed_secs' = now - pfs[cur].lastTimestamp
                 /\ reason' = "routed"
                 /\ pc' = "submit"
                 /\ UNCHANGED <<cur, gh>>
            ELSE EndPass(gh)
  /\ UNCHANGED <<pfs, now, loop_ts>>

Poll ==
  \/ PollReadFails
  \/ PollAwaiting
  \/ PollResting
  \/ PollNoHeartbeat
  \/ PollHeartbeat
  \/ PollDeviation
  \/ PollRouted

(***************************************************************************)
(* Update submission.                                                      *)
(***************************************************************************)
\* outcome: how handle_requestUpdate ended; rid: the queryId of the event;
\* fee: total_fee; sent: a transaction left the keeper; balance: the balance
\* read first; full: the fee history was full before the step.
SubmitEv(outcome, rid, fee, sent, balance, reread) ==
  [step |-> "submit", feed |-> cur, outcome |-> outcome, rid |-> rid, fee |-> fee,
   sent |-> sent, balance |-> balance, full |-> Len(pfs[cur].fees) >= FeesCap,
   reread |-> IF reread >= 0 THEN "ok" ELSE IF reread = -1 THEN "raised" ELSE "none"]

Sent(g, sent) ==
  IF sent THEN [g EXCEPT ![cur].lastSentAt = now] ELSE g

Counted(g, outcome, rid, prevId) ==
  CASE outcome = "reverted" ->
         [g EXCEPT ![cur].revertedSince = Saturate(@ + 1),
                   ![cur].revertedSinceId = Saturate(@ + 1)]
    [] outcome = "event" /\ rid > 0 ->
         [g EXCEPT ![cur].revertedSince = 0, ![cur].revertedSinceId = 0]
    [] outcome = "noevent" /\ prevId > 0 ->
         [g EXCEPT ![cur].revertedSinceId = 0]
    [] OTHER -> g

\* handle_requestUpdate is called and its result applied.  reread is the
\* timestamp of the second lastValue() read of a routed feed, -1 when that
\* read raises, -2 when it is not made.
Submit ==
  /\ pc = "submit"
  /\ \E outcome \in Outcomes, rid \in RequestIds, fee \in FeeDeltas,
        tx \in TxHashes, sent \in BOOLEAN, balance \in Balances,
        reread \in {-2, -1} \cup Timestamps :
       LET pf == pfs[cur]
           result == handle_requestUpdate(outcome, rid, tx, fee, pf.latestRequestId)
           pf1 == UpdateHistory(ApplyResult(pf, result), result, elapsed_secs)
           rereads == Len(result) >= 3 /\ pf.isRouted
       IN
       /\ balance = 0 => outcome = "failed" /\ ~sent
       /\ outcome # "failed" => sent
       /\ outcome # "event" => rid = 0
       /\ outcome \notin {"event", "noevent"} => fee = 0
       /\ rereads <=> reread # -2
       /\ pfs' = [pfs EXCEPT ![cur] = IF reread >= 0 THEN RoutedRefresh(pf1, reread) ELSE pf1]
       /\ ev' = SubmitEv(outcome, rid, fee, sent, balance, reread)
       /\ EndPass(Counted(Sent(gh, sent), outcome, rid, pf.latestRequestId))
  /\ UNCHANGED <<now, loop_ts>>

Next ==
  \/ LoopStart
  \/ LoopCrash
  \/ Sleep
  \/ TimePasses
  \/ RouteCheck
  \/ Poll
  \/ Submit

Spec == Init /\ [][Next]_vars

(***************************************************************************)
(* The loop started with a feed configured without heartbeat, routed or    *)
(* not, with or without deviation threshold.                               *)
(***************************************************************************)
NoHeartbeatConfigs ==
  {Policy(c, d, 0, r) : c \in {0, 2}, d \in {0, 400}, r \in BOOLEAN}

InitNoHeartbeat ==
  /\ \E addr \in StartAddrs, cfg \in NoHeartbeatConfigs, lp \in Prices,
        qid \in RequestIds, pu \in BOOLEAN :
       pfs = <<NewFeed(addr, cfg, lp, 0, qid, pu)>>
  /\ pc = "loop"
  /\ cur = 1
  /\ now = 0
  /\ loop_ts = 0
  /\ elapsed_secs = 0
  /\ reason = ""
  /\ ev = [step |-> "start", feed |-> 0]
  /\ gh = <<NoGhost>>

SpecNoHeartbeat == InitNoHeartbeat /\ [][Next]_vars

(***************************************************************************)
(* The runway estimator: avg_fees and time_to_die_secs.  Python's floats   *)
(* are modelled as fractions n / d with d > 0; ok is false for the result  *)
(* of a division by zero, which every later operation hands on.            *)
(***************************************************************************)
Rat(n, d) == [n |-> n, d |-> d, ok |-> TRUE]
ZeroDivisionError == [n |-> 0, d |-> 1, ok |-> FALSE]

RatDiv(a, b) ==
  IF ~a.ok \/ ~b.ok \/ b.n = 0 THEN ZeroDivisionError
  ELSE IF b.n > 0 THEN Rat(a.n * b.d, a.d * b.n)
  ELSE Rat(0 - a.n * b.d, a.d * (0 - b.n))

RatAdd(a, b) ==
  IF ~a.ok \/ ~b.ok THEN ZeroDivisionError
  ELSE Rat(a.n * b.d + b.n * a.d, a.d * b.d)

\* sum() of a list
RECURSIVE SumOf(_)
SumOf(seq) == IF seq = <<>> THEN 0 ELSE Head(seq) + SumOf(Tail(seq))

\* total_fees and total_records of avg_fees, over the feeds with fee samples
RECURSIVE TotalFees(_)
TotalFees(feeds) ==
  IF feeds = <<>> THEN 0 ELSE SumOf(Head(feeds).fees) + TotalFees(Tail(feeds))

RECURSIVE TotalRecords(_)
TotalRecords(feeds) ==
  IF feeds = <<>> THEN 0 ELSE Len(Head(feeds).fees) + TotalRecords(Tail(feeds))

avg_fees(feeds) ==
  IF TotalRecords(feeds) > 0
    THEN RatDiv(Rat(TotalFees(feeds), 1), Rat(TotalRecords(feeds), 1))
    ELSE Rat(0, 1)

\* Faulty variant: the feed's pace is used without testing that it is > 0.
FeedSpeed_Unguarded(pf, total_avg_fee) ==
  LET pf_secs == IF Len(pf.secs) > 0
                   THEN RatDiv(Rat(SumOf(pf.secs), 1), Rat(Len(pf.secs), 1))
                   ELSE Rat(pf.heartbeat, 1)
      pf_fee == IF Len(pf.fees) > 0
                  THEN RatDiv(Rat(SumOf(pf.fees), 1), Rat(Len(pf.fees), 1))
                  ELSE total_avg_fee
  IN  RatDiv(pf_fee, pf_secs)

\* What one feed adds to total_speed in the loop of time_to_die_secs.
FeedSpeed(pf, total_avg_fee) ==
  LET pf_secs == IF Len(pf.secs) > 0
                   THEN RatDiv(Rat(SumOf(pf.secs), 1), Rat(Len(pf.secs), 1))
                   ELSE Rat(pf.heartbeat, 1)
      pf_fee == IF Len(pf.fees) > 0
                  THEN RatDiv(Rat(SumOf(pf.fees), 1), Rat(Len(pf.fees), 1))
                  ELSE total_avg_fee
  IN  IF ~pf_secs.ok THEN ZeroDivisionError
      ELSE IF pf_secs.n > 0 THEN RatDiv(pf_fee, pf_secs)
      ELSE Rat(0, 1)

RECURSIVE TotalSpeed(_, _)
TotalSpeed(feeds, total_avg_fee) ==
  IF feeds = <<>> THEN Rat(0, 1)
  ELSE RatAdd(FeedSpeed(Head(feeds), total_avg_fee),
              TotalSpeed(Tail(feeds), total_avg_fee))

time_to_die_secs(balance, feeds) ==
  LET total_speed == TotalSpeed(feeds, avg_fees(feeds)) IN
  IF ~total_speed.ok THEN ZeroDivisionError
  ELSE IF total_speed.n > 0 THEN RatDiv(Rat(balance, 1), total_speed)
  ELSE Rat(0, 1)

\* Largest number of feeds in the list.
MaxFeeds == 2
RunwayBalances == {0, 1, 10}
\* elapsed_secs samples of pf["secs"]
SecSamples == {0, 2}

\* The sequences over S of length at most n.
SeqsUpTo(S, n) == UNION {[1..k -> S] : k \in 0..n}

\* The feed records the estimator is applied to.  A feed whose heartbeat is
\* 0 is never updated by the keeper, so that its histories are empty.
RunwayFeeds ==
  {[NewFeed(1, Policy(0, 0, h, FALSE), 0, 0, 0, FALSE)
      EXCEPT !.fees = f, !.secs = t] :
     h \in {3}, f \in SeqsUpTo(FeeDeltas \ {0}, FeesCap),
     t \in SeqsUpTo(SecSamples, SecsCap)}
  \cup {NewFeed(1, Policy(0, 0, 0, FALSE), 0, 0, 0, FALSE)}

InitRunway ==
  /\ \E n \in 1..MaxFeeds :
       /\ pfs \in [1..n -> RunwayFeeds]
       /\ gh = [i \in 1..n |-> NoGhost]
  /\ pc = "loop"
  /\ cur = 1
  /\ now = 0
  /\ loop_ts = 0
  /\ elapsed_secs = 0
  /\ reason = ""
  /\ ev = [step |-> "start", feed |-> 0]

\* The top of a tick: the balance is read and the runway estimated.
EstimateRunway ==
  /\ pc = "loop"
  /\ \E balance \in RunwayBalances :
       ev' = [step |-> "loop", feed |-> 0, balance |-> balance,
              time_left_secs |-> time_to_die_secs(balance, pfs)]
  /\ loop_ts' = now
  /\ pc' = "route"
  /\ cur' = 1
  /\ UNCHANGED <<pfs, now, elapsed_secs, reason, gh>>

NextRunway == EstimateRunway

SpecRunway == InitRunway /\ [][NextRunway]_vars

(***************************************************************************)
(* The deviation check on its own: an Idle, non-routed feed past the       *)
(* cooldown gate whose heartbeat is not due, with last prices and          *)
(* thresholds for which the quotient has to be rounded.                    *)
(***************************************************************************)
DeviationPrices == 94..106
\* deviationPercentage, in hundredths of a percent
DeviationThresholds == {1, 309, 310, 400, 404, 405, 417, 418}

InitDeviation ==
  /\ \E lp \in DeviationPrices, d \in DeviationThresholds :
       pfs = <<NewFeed(1, Policy(0, d, 3, FALSE), lp, 0, 0, FALSE)>>
  /\ pc = "poll"
  /\ cur = 1
  /\ now = 0
  /\ loop_ts = 0
  /\ elapsed_secs = 0
  /\ reason = ""
  /\ ev = [step |-> "route", feed |-> 1, addr |-> 1, was |-> 1,
           reset |-> "none", wasDisabled |-> FALSE]
  /\ gh = <<NoGhost>>

NextDeviation == PollDeviation

SpecDeviation == InitDeviation /\ [][NextDeviation]_vars

(***************************************************************************)
(* The trigger decision alone: one feed about to be polled, any time after *)
(* its last update, under every combination of cooldown, deviation         *)
(* threshold, heartbeat and routing that the configuration file can give,  *)
(* followed by the submission that the poll decides.                       *)
(***************************************************************************)
TriggerConfigs ==
  {Policy(c, d, h, r) : c \in {0, 2}, d \in {0, 400}, h \in {0, 3}, r \in BOOLEAN}

InitTrigger ==
  /\ \E cfg \in TriggerConfigs, lp \in Prices, qid \in RequestIds, pu \in BOOLEAN :
       pfs = <<NewFeed(1, cfg, lp, 0, qid, pu)>>
  /\ pc = "poll"
  /\ cur = 1
  /\ now \in 0..MaxTime
  /\ loop_ts = now
  /\ elapsed_secs = 0
  /\ reason = ""
  /\ ev = [step |-> "route", feed |-> 1, addr |-> 1, was |-> 1,
           reset |-> "none", wasDisabled |-> FALSE]
  /\ gh = <<NoGhost>>

NextTrigger ==
  \/ Poll
  \/ Submit

SpecTrigger == InitTrigger /\ [][NextTrigger]_vars

(***************************************************************************)
(* Vocabulary of the properties.  A step of the pass of feed i is          *)
(* recognised by what it leaves in ev.                                     *)
(***************************************************************************)
Feeds == DOMAIN pfs

RouteStep(i) == pc = "route" /\ ev'.step = "route" /\ ev'.feed = i
PollStep(i) == pc = "poll" /\ ev'.step = "poll" /\ ev'.feed = i
SubmitStep(i) == pc = "submit" /\ ev'.step = "submit" /\ ev'.feed = i

\* The pass of feed i ends with this step.
PassEnds(i) ==
  /\ pc \in {"route", "poll", "submit"}
  /\ cur = i
  /\ pc' = "sleep" \/ cur' # cur

\* The receipt has success status and an event with a request id > 0.
Accepted(e) == e.outcome = "event" /\ e.rid > 0
\* The receipt has success status and an event with request id 0.
ZeroIdEvent(e) == e.outcome = "event" /\ e.rid = 0
\* The receipt has success status and no event.
NoEvent(e) == e.outcome = "noevent"

\* The last n elements of s, in order.
LastN(s, n) == SubSeq(s, Len(s) - Min(n, Len(s)) + 1, Len(s))

\* The self-protection counters and the histories are those of a new feed.
Cleared(f) ==
  /\ f.reverts = 0
  /\ f.lastRevertedTx = ""
  /\ ~f.auto_disabled
  /\ f.fees = <<>>
  /\ f.secs = <<>>

(***************************************************************************)
(* C1                                                                      *)
(***************************************************************************)
\* C1 as stated: after a submission, a success receipt with no event or with
\* an event of request id 0 leaves pendingUpdate false whatever the previous
\* latestRequestId was, and an event with a request id > 0 leaves it true.
C1_AsStated ==
  [][\A i \in Feeds :
       SubmitStep(i) =>
         /\ (NoEvent(ev') \/ ZeroIdEvent(ev')) => ~pfs'[i].pendingUpdate
         /\ Accepted(ev') => pfs'[i].pendingUpdate]_vars

\* C1 amended: an event with request id 0 leaves pendingUpdate false and an
\* event with a request id > 0 leaves it true; a success receipt with no
\* event leaves pendingUpdate true exactly when the feed's previous
\* latestRequestId was > 0, in which case latestRequestId is unchanged.
C1_Amended ==
  [][\A i \in Feeds :
       SubmitStep(i) =>
         /\ ZeroIdEvent(ev') => ~pfs'[i].pendingUpdate
         /\ Accepted(ev') =>
              pfs'[i].pendingUpdate /\ pfs'[i].latestRequestId = ev'.rid
         /\ NoEvent(ev') =>
              /\ pfs'[i].pendingUpdate <=> pfs[i].latestRequestId > 0
              /\ pfs'[i].latestRequestId = pfs[i].latestRequestId]_vars

\* A success receipt without event has just put the feed in AwaitingResolution.
C1_Witness ==
  /\ ev.step = "submit"
  /\ NoEvent(ev)
  /\ pfs[ev.feed].pendingUpdate
  /\ pfs[ev.feed].latestRequestId > 0

(***************************************************************************)
(* C2                                                                      *)
(***************************************************************************)
\* A submission whose returned request id is > 0.
ReturnedId(i) ==
  SubmitStep(i) /\ (Accepted(ev') \/ (NoEvent(ev') /\ pfs[i].latestRequestId > 0))

\* The poll of a feed awaiting an update reads a resolution.
ResolutionSeen(i) ==
  /\ PollStep(i)
  /\ ev'.branch = "awaiting"
  /\ ev'.status = 400 \/ (ev'.status = 200 /\ ev'.ts > pfs[i].lastTimestamp)

\* C2 as stated: pendingUpdate is true exactly from a submission of the
\* keeper that returned a non-zero request id until a resolution is
\* observed: it becomes true only at such a submission and false only at an
\* observed resolution; no other step sets it.
C2_AsStated ==
  [][\A i \in Feeds :
       /\ (~pfs[i].pendingUpdate /\ pfs'[i].pendingUpdate) => ReturnedId(i)
       /\ (pfs[i].pendingUpdate /\ ~pfs'[i].pendingUpdate) => ResolutionSeen(i)]_vars

\* The Idle pass of a feed without heartbeat copies the contract's flag.
FlagCopied(i) ==
  PollStep(i) /\ ev'.branch = "noheartbeat" /\ ev'.flag # "raised"

\* The refresh after a route change succeeded.
Refreshed(i) == RouteStep(i) /\ ev'.reset = "ok"

\* C2 amended: pendingUpdate becomes true only at a submission that returned
\* a request id > 0, at the copy of a true pendingUpdate flag of the contract
\* by the Idle pass of a feed whose heartbeat is 0, or at the refresh after a
\* route change; it becomes false only at an observed resolution or at such
\* a refresh.  A submission that returned an id > 0 leaves it true, an
\* observed resolution leaves it false, a copy leaves the flag read.
C2_Amended ==
  [][\A i \in Feeds :
       /\ (~pfs[i].pendingUpdate /\ pfs'[i].pendingUpdate) =>
            \/ ReturnedId(i)
            \/ FlagCopied(i) /\ ev'.flag = "true"
            \/ Refreshed(i)
       /\ (pfs[i].pendingUpdate /\ ~pfs'[i].pendingUpdate) =>
            ResolutionSeen(i) \/ Refreshed(i)
       /\ ReturnedId(i) => pfs'[i].pendingUpdate
       /\ ResolutionSeen(i) => ~pfs'[i].pendingUpdate
       /\ FlagCopied(i) => (pfs'[i].pendingUpdate <=> ev'.flag = "true")]_vars

\* A feed without heartbeat has just taken a true flag from the contract.
C2_Witness ==
  /\ ev.step = "poll"
  /\ ev.branch = "noheartbeat"
  /\ ev.flag = "true"
  /\ pfs[ev.feed].pendingUpdate
  /\ gh[ev.feed].lastSentAt = -1

(***************************************************************************)
(* C3                                                                      *)
(***************************************************************************)
\* The router returned an address other than the tracked one.
RouteChanged(i) == RouteStep(i) /\ ev'.addr # -1 /\ ev'.addr # ev'.was

\* C3 as stated: when the pass of a feed resolves a router address that
\* differs from the tracked one, the feed's counters and histories are
\* cleared at the end of that pass, whatever the new address is.
C3_AsStated ==
  [][\A i \in Feeds :
       (PassEnds(i) /\ (gh[i].routeChanged \/ RouteChanged(i))) =>
         Cleared(pfs'[i])]_vars

\* C3 amended: when the pass of a feed resolves a router address that is not
\* the null address and differs from the tracked one, and the refresh reads
\* succeed within the five attempts, then right after the refresh (before
\* the rest of the pass) the feed tracks the new address, revertCount is 0,
\* lastRevertedTxHash is empty, autoDisabled is false and both histories are
\* empty, whatever the feed's state was.  A change to the null address, or
\* a refresh whose reads fail on all the attempts, replaces the tracked
\* address and resets no counter, flag or history.
C3_Amended ==
  [][\A i \in Feeds :
       /\ (RouteChanged(i) /\ ev'.addr # ZeroAddr /\ ev'.reset = "ok") =>
            Cleared(pfs'[i]) /\ pfs'[i].contract = ev'.addr
       /\ (RouteChanged(i) /\ (ev'.addr = ZeroAddr \/ ev'.reset = "failed")) =>
            /\ pfs'[i].contract = ev'.addr
            /\ pfs'[i].reverts = pfs[i].reverts
            /\ pfs'[i].lastRevertedTx = pfs[i].lastRevertedTx
            /\ pfs'[i].auto_disabled = pfs[i].auto_disabled
            /\ pfs'[i].fees = pfs[i].fees
            /\ pfs'[i].secs = pfs[i].secs]_vars

\* A disabled feed has just been refreshed after a route change.
C3_Witness ==
  /\ ev.step = "route"
  /\ ev.reset = "ok"
  /\ ev.wasDisabled
  /\ pfs[ev.feed].contract = ev.addr
  /\ ~pfs[ev.feed].auto_disabled

(***************************************************************************)
(* C4                                                                      *)
(***************************************************************************)
Reverted(e) == e.outcome = "reverted"
Undelivered(e) == e.outcome \in {"timeout", "failed"}

\* C4 as stated: autoDisabled becomes true exactly at the submission outcome
\* at which the number of Reverted outcomes since the last Accepted outcome
\* or route-change reset reaches maxReverts; TimedOut and Failed outcomes
\* leave revertCount as it is.
C4_AsStated ==
  [][\A i \in Feeds :
       /\ (~pfs[i].auto_disabled /\ pfs'[i].auto_disabled) <=>
            (SubmitStep(i) /\ Reverted(ev')
               /\ gh'[i].revertedSince = web3_max_reverts)
       /\ (SubmitStep(i) /\ Undelivered(ev')) =>
            pfs'[i].reverts = pfs[i].reverts]_vars

\* C4 amended (maxReverts >= 1): autoDisabled becomes true exactly at the
\* submission outcome at which the number of Reverted outcomes since the
\* last counter reset reaches maxReverts, where the counter is reset by every
\* submission that returned a request id > 0 (an Accepted outcome, or a
\* success receipt without event while the previous latestRequestId is > 0)
\* and by a successful route-change refresh; revertCount is that number;
\* TimedOut, Failed and the other success outcomes leave revertCount and
\* autoDisabled as they are.
C4_Amended ==
  [][\A i \in Feeds :
       /\ (~pfs[i].auto_disabled /\ pfs'[i].auto_disabled) <=>
            (SubmitStep(i) /\ Reverted(ev')
               /\ gh'[i].revertedSinceId = web3_max_reverts)
       /\ pfs'[i].reverts = gh'[i].revertedSinceId
       /\ ReturnedId(i) => pfs'[i].reverts = 0
       /\ (SubmitStep(i) /\ ~Reverted(ev') /\ ~ReturnedId(i)) =>
            /\ pfs'[i].reverts = pfs[i].reverts
            /\ pfs'[i].auto_disabled = pfs[i].auto_disabled]_vars

\* The revert that reached the threshold has just disabled the feed.
C4_Witness ==
  /\ ev.step = "submit"
  /\ Reverted(ev)
  /\ pfs[ev.feed].auto_disabled
  /\ gh[ev.feed].revertedSinceId = web3_max_reverts
  /\ pfs[ev.feed].lastRevertedTx # ""

(***************************************************************************)
(* C5                                                                      *)
(***************************************************************************)
\* C5: in every reachable state of every feed, autoDisabled implies
\* revertCount >= maxReverts.
C5_DisabledImpliesReverts ==
  \A i \in Feeds : pfs[i].auto_disabled => pfs[i].reverts >= web3_max_reverts

\* A feed is disabled, with the hash of its last reverted transaction.
C5_Witness ==
  \E i \in Feeds :
    /\ pfs[i].auto_disabled
    /\ pfs[i].reverts >= web3_max_reverts
    /\ pfs[i].lastRevertedTx \in TxHashes

(***************************************************************************)
(* C6                                                                      *)
(***************************************************************************)
\* C6: once autoDisabled is true it stays true, and the feed record is left
\* as it is, in every step but the one that resolves a router address other
\* than the tracked one; in a pass where the router returns the tracked
\* address the feed is skipped: the pass ends at the route check, so that
\* nothing is polled, no dry run is made and no transaction is sent.
C6_DisabledIsSkipped ==
  [][\A i \in Feeds :
       /\ (pfs[i].auto_disabled /\ pfs'[i] # pfs[i]) => RouteChanged(i)
       /\ (RouteStep(i) /\ pfs[i].auto_disabled /\ ev'.addr = pfs[i].contract) =>
            /\ pfs'[i] = pfs[i]
            /\ PassEnds(i)
            /\ gh'[i].lastSentAt = gh[i].lastSentAt]_vars

\* A disabled feed has just been skipped on an unchanged, non-null route.
C6_Witness ==
  /\ ev.step = "route"
  /\ ev.wasDisabled
  /\ ev.addr = ev.was
  /\ ev.addr # ZeroAddr
  /\ pfs[ev.feed].auto_disabled
  /\ pc = "sleep"

(***************************************************************************)
(* C7                                                                      *)
(***************************************************************************)
SuccessReceipt(e) == e.outcome \in {"event", "noevent"}

NewResultRead(i) ==
  /\ PollStep(i)
  /\ ev'.branch = "awaiting"
  /\ ev'.status = 200
  /\ ev'.ts > pfs[i].lastTimestamp

\* C8 as stated: on such a reading pendingUpdate becomes false, lastPrice and
\* lastTimestamp take the reported values, and the reported timestamp minus
\* the previous lastTimestamp is appended to latencyHistory.
C8_AsStated ==
  [][\A i \in Feeds :
       NewResultRead(i) =>
         /\ ~pfs'[i].pendingUpdate
         /\ pfs'[i].lastPrice = ev'.price
         /\ pfs'[i].lastTimestamp = ev'.ts
         /\ pfs'[i].secs =
              LastN(pfs[i].secs \o <<ev'.ts - pfs[i].lastTimestamp>>, SecsCap)]_vars

\* C8 amended: on such a reading pendingUpdate becomes false and lastPrice
\* and lastTimestamp take the reported values; the latency is only
\* reported: latencyHistory and feeHistory are left as they are.
C8_Amended ==
  [][\A i \in Feeds :
       NewResultRead(i) =>
         /\ ~pfs'[i].pendingUpdate
         /\ pfs'[i].lastPrice = ev'.price
         /\ pfs'[i].lastTimestamp = ev'.ts
         /\ pfs'[i].secs = pfs[i].secs
         /\ pfs'[i].fees = pfs[i].fees]_vars

\* A new valid result has just been taken.
C8_Witness ==
  /\ ev.step = "poll"
  /\ ev.branch = "awaiting"
  /\ ev.status = 200
  /\ ev.ts > 0
  /\ ~pfs[ev.feed].pendingUpdate
  /\ pfs[ev.feed].lastTimestamp = ev.ts
  /\ pfs[ev.feed].lastPrice = ev.price

(***************************************************************************)
(* C9                                                                      *)
(***************************************************************************)
\* C9 as stated: two transactions sent for the same feed are at least the
\* feed's cooldownSecs apart.
C9_AsStated ==
  [][\A i \in Feeds :
       (SubmitStep(i) /\ ev'.sent /\ gh[i].lastSentAt >= 0) =>
         now - gh[i].lastSentAt >= pfs[i].cooldown]_vars

\* C9 amended: a transaction is sent for a feed only in a pass that found
\* the feed Idle with elapsedSecs (the time of the poll minus the tracked
\* lastTimestamp) >= cooldownSecs - finalizationBudget; two transactions for
\* the same feed can be closer than cooldownSecs.
C9_Amended ==
  [][\A i \in Feeds :
       /\ gh'[i].lastSentAt # gh[i].lastSentAt => SubmitStep(i) /\ ev'.sent
       /\ (pc # "submit" /\ pc' = "submit" /\ cur' = i) =>
            /\ PollStep(i)
            /\ ~pfs[i].pendingUpdate
            /\ elapsed_secs' = now - pfs[i].lastTimestamp
       /\ (pc' = "submit" /\ cur' = i) =>
            elapsed_secs' >= pfs'[i].cooldown - total_finalization_secs]_vars

\* A transaction has just been sent for a feed with a cooldown, less than
\* the cooldown after the tracked lastTimestamp.
C9_Witness ==
  /\ ev.step = "submit"
  /\ ev.sent
  /\ pfs[ev.feed].cooldown > 0
  /\ gh[ev.feed].lastSentAt = now
  /\ now - pfs[ev.feed].lastTimestamp < pfs[ev.feed].cooldown

(***************************************************************************)
(* C10                                                                     *)
(***************************************************************************)
\* C10: for an Idle feed with heartbeatSecs > 0 polled past the cooldown
\* gate, the update is requested for the heartbeat reason if and only if
\* elapsedSecs >= heartbeatSecs - finalizationBudget when the feed is not
\* routed, and elapsedSecs >= heartbeatSecs when it is.
C10_HeartbeatTrigger ==
  [][\A i \in Feeds :
       LET elapsed == now - pfs[i].lastTimestamp IN
       (/\ PollStep(i)
        /\ ev'.branch # "readfailed"
        /\ ~pfs[i].pendingUpdate
        /\ pfs[i].heartbeat > 0
        /\ elapsed >= pfs[i].cooldown - total_finalization_secs) =>
         ((pc' = "submit" /\ reason' = "heartbeat") <=>
            IF pfs[i].isRouted
              THEN elapsed >= pfs[i].heartbeat
              ELSE elapsed >= pfs[i].heartbeat - total_finalization_secs)]_vars

\* A routed feed is about to be updated for the heartbeat reason, exactly
\* heartbeatSecs after its last update.
C10_Witness ==
  /\ pc = "submit"
  /\ reason = "heartbeat"
  /\ pfs[cur].isRouted
  /\ elapsed_secs = pfs[cur].heartbeat
  /\ ev.step = "poll"

(***************************************************************************)
(* C11                                                                     *)
(***************************************************************************)
\* The integer nearest to n / d (d > 0), the even one when two are as near.
Nearest(n, d) ==
  LET k == Abs(n) \div d + 1 IN
  CHOOSE r \in (0 - k)..k :
    \/ 2 * Abs(n - r * d) < d
    \/ 2 * Abs(n - r * d) = d /\ r % 2 = 0

\* Feed i is Idle, not routed, past the cooldown gate, with a deviation
\* threshold and a last price > 0, and its heartbeat condition is not met.
DeviationCase(i) ==
  LET pf == pfs[i]
      elapsed == now - pf.lastTimestamp
  IN  /\ ~pf.pendingUpdate
      /\ ~pf.isRouted
      /\ pf.deviation > 0
      /\ pf.lastPrice > 0
      /\ pf.heartbeat > 0
      /\ elapsed >= pf.cooldown - total_finalization_secs
      /\ elapsed < pf.heartbeat - total_finalization_secs

\* C11: for an Idle non-routed feed with a deviation threshold > 0 and a
\* last price > 0 whose heartbeat condition is not met and whose oracle call
\* succeeds, the update is requested for the deviation reason if and only if
\* |round(100 * (predicted - lastPrice) / lastPrice, 2)| >= threshold, for
\* negative deviations as for positive ones.
C11_DeviationTrigger ==
  [][\A i \in Feeds :
       (/\ PollStep(i)
        /\ DeviationCase(i)
        /\ ev'.branch # "readfailed"
        /\ ev'.oracle # -1) =>
         ((pc' = "submit" /\ reason' = "deviation") <=>
            Abs(Nearest(10000 * (ev'.oracle - pfs[i].lastPrice), pfs[i].lastPrice))
              >= pfs[i].deviation)]_vars

\* A negative deviation that had to be rounded has just triggered an update,
\* exactly at the threshold.
C11_Witness ==
  /\ pc = "submit"
  /\ reason = "deviation"
  /\ ev.step = "poll"
  /\ ev.oracle < pfs[cur].lastPrice
  /\ (10000 * (pfs[cur].lastPrice - ev.oracle)) % pfs[cur].lastPrice # 0
  /\ Abs(DeviationOf(ev.oracle, pfs[cur].lastPrice)) = pfs[cur].deviation

(***************************************************************************)
(* C12                                                                     *)
(***************************************************************************)
\* The submission of feed i finds the funding account empty.
FundingDepleted(i) == SubmitStep(i) /\ ev'.balance = 0

\* C12 as stated: when the submitter finds the balance of the funding
\* account equal to 0, no transaction is sent and the keeper stops: the loop
\* halts at that step, so that no later tick attempts a submission.
C12_AsStated ==
  [][\A i \in Feeds :
       FundingDepleted(i) => ~ev'.sent /\ pc' = "crashed"]_vars

(***************************************************************************)
(* C13                                                                     *)
(***************************************************************************)
NoFeeSample == \A i \in Feeds : pfs[i].fees = <<>>

\* C13: the runway estimator never divides by zero, and it returns 0 for
\* every balance and every list of feeds in which no feed has a fee sample,
\* whatever the latency histories and the heartbeats are.
C13_RunwayWithoutFees ==
  [][(pc = "loop" /\ ev'.step = "loop") =>
       /\ ev'.time_left_secs.ok
       /\ NoFeeSample => ev'.time_left_secs.n = 0]_vars

\* The estimate is 0 for a positive balance and feeds without fee samples,
\* one with heartbeat 0 and no latency sample, another with latency samples.
C13_Witness ==
  /\ ev.step = "loop"
  /\ pc = "route"
  /\ ev.balance > 0
  /\ ev.time_left_secs.ok
  /\ ev.time_left_secs.n = 0
  /\ NoFeeSample
  /\ \E i \in Feeds : pfs[i].heartbeat = 0 /\ pfs[i].secs = <<>>
  /\ \E i \in Feeds : pfs[i].secs # <<>> /\ SumOf(pfs[i].secs) > 0

(***************************************************************************)
(* C14                                                                     *)
(***************************************************************************)
\* The route check of feed i finds the address the feed already tracks.
RouteUnchanged(i) == RouteStep(i) /\ ev'.addr = pfs[i].contract

\* C14: the route check that finds the tracked address changes nothing of
\* the feed record (address, policy, live state, counters, flags, both
\* histories), nor of any other feed: a second such check finds the state
\* the first one found.
C14_RouteCheckIdempotent ==
  [][\A i \in Feeds : RouteUnchanged(i) => pfs' = pfs]_vars

\* A feed with a revert counted and a latency sample has just passed the
\* route check on an unchanged address.
C14_Witness ==
  /\ ev.step = "route"
  /\ ev.addr = ev.was
  /\ ev.addr # ZeroAddr
  /\ pc = "poll"
  /\ pfs[ev.feed].reverts > 0
  /\ pfs[ev.feed].secs # <<>>

(***************************************************************************)
(* C15                                                                     *)
(***************************************************************************)
\* Feed i has no heartbeat, is Idle and past the cooldown gate.
IdleWithoutHeartbeat(i) ==
  /\ pfs[i].heartbeat = 0
  /\ ~pfs[i].pendingUpdate
  /\ now - pfs[i].lastTimestamp >= pfs[i].cooldown - total_finalization_secs

\* C15: no update is submitted for a feed whose heartbeatSecs is 0, routed
\* or not, whatever its deviation threshold, its last price and the
\* contract's pendingUpdate flag are: no pass of such a feed reaches the
\* submission and no transaction is sent for it.  The Idle pass of such a
\* feed past the cooldown gate ends at the poll, and all it changes is
\* pendingUpdate, which takes the flag read from the contract.
C15_NoHeartbeatNoUpdate ==
  [][\A i \in Feeds :
       /\ (pc' = "submit" /\ cur' = i) => pfs'[i].heartbeat # 0
       /\ pfs[i].heartbeat = 0 => gh'[i].lastSentAt = gh[i].lastSentAt
       /\ (PollStep(i) /\ IdleWithoutHeartbeat(i) /\ ev'.branch # "readfailed") =>
            /\ ev'.branch = "noheartbeat"
            /\ PassEnds(i)
            /\ pfs'[i] = [pfs[i] EXCEPT !.pendingUpdate =
                            IF ev'.flag = "raised" THEN @ ELSE ev'.flag = "true"]]_vars

\* A routed feed without heartbeat has just read a true flag and ended its
\* pass without a submission.
C15_Witness ==
  /\ ev.step = "poll"
  /\ ev.branch = "noheartbeat"
  /\ ev.flag = "true"
  /\ pc = "sleep"
  /\ pfs[ev.feed].heartbeat = 0
  /\ pfs[ev.feed].isRouted
  /\ pfs[ev.feed].pendingUpdate

(***************************************************************************)
(* C16                                                                     *)
(***************************************************************************)
\* The dry run of the pass of feed i (or the read of the bytecode) raises.
OracleFails(i) == PollStep(i) /\ ev'.branch = "deviation" /\ ev'.oracle = -1

\* Feed i is Idle and past the cooldown gate, and its heartbeat is due.
HeartbeatCase(i) ==
  LET pf == pfs[i]
      elapsed == now - pf.lastTimestamp
  IN  /\ ~pf.pendingUpdate
      /\ pf.heartbeat > 0
      /\ elapsed >= pf.cooldown - total_finalization_secs
      /\ elapsed >= pf.heartbeat - (IF pf.isRouted THEN 0 ELSE total_finalization_secs)

\* C16: a failure or timeout of the deviation oracle does not stop the loop,
\* leads to no submission in that pass and leaves the feed records as they
\* are; and whenever the heartbeat condition holds for an Idle feed past the
\* cooldown gate the update is requested for the heartbeat reason without
\* the oracle being asked.
C16_OracleFailure ==
  [][\A i \in Feeds :
       /\ OracleFails(i) =>
            /\ pfs' = pfs
            /\ PassEnds(i)
            /\ pc' \notin {"submit", "crashed"}
            /\ gh'[i].lastSentAt = gh[i].lastSentAt
       /\ (PollStep(i) /\ HeartbeatCase(i) /\ ev'.branch # "readfailed") =>
            /\ ev'.branch = "heartbeat"
            /\ pc' = "submit"
            /\ reason' = "heartbeat"]_vars

\* The oracle has just failed for a feed with a deviation threshold, and the
\* pass ended without a submission.
C16_Witness ==
  /\ ev.step = "poll"
  /\ ev.branch = "deviation"
  /\ ev.oracle = -1
  /\ pc = "sleep"
  /\ pfs[ev.feed].deviation > 0
  /\ ~pfs[ev.feed].pendingUpdate

(***************************************************************************)
(* C17                                                                     *)
(***************************************************************************)
\* The feed record f without what a revert writes.
BesidesRevert(f) ==
  [f EXCEPT !.reverts = 0, !.lastRevertedTx = "", !.auto_disabled = FALSE]

\* C17: a submission that ends TimedOut or Failed leaves the whole feed
\* record as it is; a Reverted one changes only revertCount,
\* lastRevertedTxHash and possibly autoDisabled; a submission changes the
\* fee and latency histories only after a receipt with success status.
C17_SubmissionFrame ==
  [][\A i \in Feeds :
       SubmitStep(i) =>
         /\ Undelivered(ev') => pfs'[i] = pfs[i]
         /\ Reverted(ev') =>
              /\ BesidesRevert(pfs'[i]) = BesidesRevert(pfs[i])
              /\ pfs'[i].reverts = pfs[i].reverts + 1
              /\ pfs'[i].lastRevertedTx \in TxHashes
              /\ pfs[i].auto_disabled => pfs'[i].auto_disabled
         /\ (pfs'[i].fees # pfs[i].fees \/ pfs'[i].secs # pfs[i].secs) =>
              SuccessReceipt(ev')]_vars

\* A transaction has just timed out for a feed that has a latency sample
\* and a revert counted.
C17_Witness ==
  /\ ev.step = "submit"
  /\ ev.outcome = "timeout"
  /\ ev.sent
  /\ pfs[ev.feed].secs # <<>>
  /\ pfs[ev.feed].reverts = 1

(***************************************************************************)
(* C18                                                                     *)
(***************************************************************************)
\* C18 as stated: once entered, the loop never terminates; a tick starts
\* with the first feed of the list, the pass of a feed is followed by the
\* pass of the next feed of the list and the pass of the last one by the
\* sleep, whatever error the pass met; no position of the loop is left for
\* the end of the loop.
C18_AsStated ==
  [][/\ pc' # "crashed"
     /\ pc = "loop" => pc' = "route" /\ cur' = 1
     /\ \A i \in Feeds :
          PassEnds(i) =>
            IF i < Len(pfs) THEN pc' = "route" /\ cur' = i + 1
                            ELSE pc' = "sleep"]_vars

(***************************************************************************)
(* C19                                                                     *)
(***************************************************************************)
\* C19 as stated: after a successful refresh for a new, non-null address the
\* feed's latestRequestId is the request id read from the new contract in
\* that pass (the refresh leaves the id it read in the key latestQueryId of
\* the record), and its policy is one of the configuration.
C19_AsStated ==
  [][\A i \in Feeds :
       (Refreshed(i) /\ ev'.addr # ZeroAddr) =>
         /\ pfs'[i].latestRequestId = pfs'[i].latestQueryId
         /\ \E cfg \in Configs :
              /\ pfs'[i].cooldown = cfg.cooldown
              /\ pfs'[i].deviation = cfg.deviation
              /\ pfs'[i].heartbeat = cfg.heartbeat
              /\ pfs'[i].isRouted = cfg.isRouted]_vars

(***************************************************************************)
(* C20                                                                     *)
(***************************************************************************)
\* The router resolves feed i to the null address.
ResolvedToNull(i) == RouteStep(i) /\ ev'.addr = ZeroAddr

\* C20: in a pass where the router resolves the feed to the null address,
\* be it for the first time or again, the pass ends at the route check
\* without error: the feed contract is not read, no trigger is evaluated,
\* nothing is sent, the record keeps everything but the tracked address,
\* and the next feed of the list (or the sleep) follows.
C20_NullRouteSkipped ==
  [][\A i \in Feeds :
       ResolvedToNull(i) =>
         /\ PassEnds(i)
         /\ IF i < Len(pfs) THEN pc' = "route" /\ cur' = i + 1
                            ELSE pc' = "sleep"
         /\ pfs' = [pfs EXCEPT ![i].contract = ZeroAddr]
         /\ gh'[i].lastSentAt = gh[i].lastSentAt]_vars

\* A feed that already tracked the null address has just been skipped again.
C20_Witness ==
  /\ ev.step = "route"
  /\ ev.addr = ZeroAddr
  /\ ev.was = ZeroAddr
  /\ pc = "sleep"
  /\ pfs[ev.feed].contract = ZeroAddr
  /\ ~pfs[ev.feed].auto_disabled

(***************************************************************************)
(* C21                                                                     *)
(***************************************************************************)
\* The poll of a feed awaiting an update reads an explicit error (status 400).
ErrorRead(i) == PollStep(i) /\ ev'.branch = "awaiting" /\ ev'.status = 400

\* C21: when a feed awaiting an update reads a value with explicit-error
\* status, pendingUpdate becomes false in that pass while lastPrice,
\* lastTimestamp, latestRequestId, the revert counter, auto_disabled and
\* both histories (as every other key of the record) keep their values, and
\* the pass ends there.
C21_ErrorResolutionFrame ==
  [][\A i \in Feeds :
       ErrorRead(i) =>
         /\ pfs[i].pendingUpdate
         /\ ~pfs'[i].pendingUpdate
         /\ pfs'[i].lastPrice = pfs[i].lastPrice
         /\ pfs'[i].lastTimestamp = pfs[i].lastTimestamp
         /\ pfs'[i].latestRequestId = pfs[i].latestRequestId
         /\ pfs'[i].reverts = pfs[i].reverts
         /\ pfs'[i].auto_disabled = pfs[i].auto_disabled
         /\ pfs'[i].fees = pfs[i].fees
         /\ pfs'[i].secs = pfs[i].secs
         /\ pfs'[i] = [pfs[i] EXCEPT !.pendingUpdate = FALSE]
         /\ PassEnds(i)]_vars

\* An explicit error carrying a newer timestamp and another price has just
\* resolved an update the keeper had requested: price and timestamp were
\* not taken.
C21_Witness ==
  /\ ev.step = "poll"
  /\ ev.branch = "awaiting"
  /\ ev.status = 400
  /\ ev.ts > pfs[ev.feed].lastTimestamp
  /\ ev.price # pfs[ev.feed].lastPrice
  /\ pfs[ev.feed].latestRequestId > 0
  /\ pfs[ev.feed].secs # <<>>
  /\ ~pfs[ev.feed].pendingUpdate

(***************************************************************************)
(* C22                                                                     *)
(***************************************************************************)
\* The reasons for which an update of the feed may be requested.
ReasonsOf(pf) ==
  IF pf.isRouted THEN {"heartbeat", "routed"} ELSE {"heartbeat", "deviation"}

\* The poll of feed i dry-runs the request (or fails on the way to it).
OracleInvoked(i) == PollStep(i) /\ ev'.branch = "deviation"

\* C22: an update is requested for a routed feed only for the heartbeat
\* reason or because the contract signals a pending update, and for a feed
\* that is not routed only for the heartbeat or the deviation reason; the
\* request is dry-run only for a feed that is not routed, whose heartbeat
\* condition does not hold, and whose deviation threshold and lastPrice are
\* both > 0.
C22_TriggerReasons ==
  [][\A i \in Feeds :
       LET elapsed == now - pfs[i].lastTimestamp
           due == elapsed >= pfs[i].heartbeat -
                    (IF pfs[i].isRouted THEN 0 ELSE total_finalization_secs)
       IN
       /\ (PollStep(i) /\ pc' = "submit") =>
            /\ reason' \in ReasonsOf(pfs[i])
            /\ reason' = "heartbeat" => due
            /\ reason' = "routed" => ev'.branch = "routed" /\ ev'.flag = "true"
            /\ reason' = "deviation" => OracleInvoked(i) /\ ev'.oracle # -1
       /\ OracleInvoked(i) =>
            /\ ~pfs[i].isRouted
            /\ ~due
            /\ pfs[i].deviation > 0
            /\ pfs[i].lastPrice > 0
       /\ SubmitStep(i) => reason \in ReasonsOf(pfs[i])]_vars

\* A routed feed that has a deviation threshold and a price, and whose
\* heartbeat is not due, is about to be updated because the contract
\* signalled a pending update: the request was not dry-run.
C22_Witness ==
  /\ pc = "submit"
  /\ reason = "routed"
  /\ ev.step = "poll"
  /\ ev.branch = "routed"
  /\ ev.flag = "true"
  /\ pfs[cur].isRouted
  /\ pfs[cur].deviation > 0
  /\ pfs[cur].lastPrice > 0
  /\ elapsed_secs < pfs[cur].heartbeat

(***************************************************************************)
(* C23                                                                     *)
(***************************************************************************)
\* The poll of a feed awaiting an update reads a value that is neither a
\* success with a newer timestamp nor an explicit error.
StillInFlight(i) ==
  /\ PollStep(i)
  /\ ev'.branch = "awaiting"
  /\ ev'.status # 400
  /\ ~(ev'.status = 200 /\ ev'.ts > pfs[i].lastTimestamp)

\* C23: while pendingUpdate is true the poll of the feed neither requests an
\* update nor dry-runs the request, and no transaction is sent for it; a
\* reading that is neither a success with a timestamp newer than
\* lastTimestamp nor an explicit error leaves the whole record unchanged,
\* whatever the time elapsed, so that the feed is still awaiting; and
\* pendingUpdate becomes false only at an observed resolution or at the
\* refresh after a route change.
C23_AwaitingResolution ==
  [][\A i \in Feeds :
       /\ (PollStep(i) /\ pfs[i].pendingUpdate) =>
            /\ ev'.branch \in {"awaiting", "readfailed"}
            /\ PassEnds(i)
            /\ pc' # "submit"
            /\ gh'[i].lastSentAt = gh[i].lastSentAt
       /\ OracleInvoked(i) => ~pfs[i].pendingUpdate
       /\ SubmitStep(i) => ~pfs[i].pendingUpdate
       /\ StillInFlight(i) =>
            /\ pfs'[i] = pfs[i]
            /\ pfs'[i].pendingUpdate
       /\ (pfs[i].pendingUpdate /\ ~pfs'[i].pendingUpdate) =>
            ResolutionSeen(i) \/ Refreshed(i)]_vars

\* A feed whose heartbeat is long due is still awaiting after the read of a
\* success that carries no newer timestamp.
C23_Witness ==
  /\ ev.step = "poll"
  /\ ev.branch = "awaiting"
  /\ ev.status = 200
  /\ ev.ts <= pfs[ev.feed].lastTimestamp
  /\ pfs[ev.feed].pendingUpdate
  /\ pfs[ev.feed].heartbeat > 0
  /\ now - pfs[ev.feed].lastTimestamp > pfs[ev.feed].heartbeat
  /\ gh[ev.feed].lastSentAt >= 0

(***************************************************************************)
(* C24                                                                     *)
(***************************************************************************)
\* The refresh after a route change raised on every attempt.
RefreshFailed(i) == RouteStep(i) /\ ev'.reset = "failed"

\* C24 as stated: the tracked address of a feed changes to another address
\* that is not the null address only in a pass whose refresh succeeds; a
\* refresh whose reads fail on all the five attempts leaves the record of
\* the feed (tracked address, policy, live state, counters and histories)
\* as it was.
C24_AsStated ==
  [][\A i \in Feeds :
       /\ (pfs'[i].contract # pfs[i].contract /\ pfs'[i].contract # ZeroAddr) =>
            Refreshed(i)
       /\ RefreshFailed(i) => pfs'[i] = pfs[i]]_vars

====
